---- MODULE Spec2Model ----
(***************************************************************************)
(* processCoffeeWithGemini (functions/src/index.ts): the Firestore         *)
(* onDocumentCreated handler that sends a coffee document to Gemini and    *)
(* writes the answer back onto the document.                               *)
(*                                                                         *)
(* index.ts holds the handler twice: lines 61-238 set status "processing"  *)
(* before working (variant "marker"), lines 303-510 do not (variant        *)
(* "current").  The model runs either, chosen at deployment.               *)
(*                                                                         *)
(* A handler is an async function: it runs without interruption from one   *)
(* await to the next.  Every action below is one such stretch: the start   *)
(* of the handler up to its first await, or the code that runs when an     *)
(* awaited call resolves or rejects, up to the next await or the return.   *)
(* Several deliveries of the creation event (the trigger is at-least-once) *)
(* interleave at the awaits and meet in the stored document and the        *)
(* instance's temporary directory.                                         *)
(***************************************************************************)
EXTENDS Integers, Sequences, FiniteSets, TLC

\* Deliveries of the creation event that may run (the original and redeliveries).
NumInv == 2
\* Awaited storage/AI exchanges over all deliveries: a delivery of a document
\* with n references has n + 1 of them (n assets, one generation), so such a
\* document has at most MaxCalls - 1 references and is delivered at most
\* MaxCalls \div (n + 1) times.
MaxCalls == 4

Invocations == 1..NumInv

VARIABLES
    variant,          \* "marker" (lines 61-238) or "current" (lines 303-510)
    GEMINI_API_KEY,   \* whether process.env.GEMINI_API_KEY is set
    photoPaths,       \* data.photoPaths of the created document
    snapshot,         \* event.data.data(): the document as it was created
    today,            \* new Date() at line 346: the day the handler runs on
    record,           \* the stored document coffee/{docId}
    writer,           \* the invocation whose update was applied last (0: none)
    disk,             \* the files in os.tmpdir()
    clock,            \* the latest value Date.now() returned on the instance
    remoteFiles,      \* the files the AI service holds for ai.files.upload calls
    pc,               \* per invocation: the await it is suspended at
    idx,              \* per invocation: position of the for..of over photoPaths
    tempFiles,        \* per invocation: const tempFiles
    contentParts,     \* per invocation: const contentParts
    assets,           \* per invocation: how each reference handled so far ended
    created,          \* per invocation: the temp files its downloads created
    calls,            \* per invocation: external calls issued, by kind
    generated,        \* per invocation: fate of its generateContent call
    unlinks,          \* per invocation: fs.unlinkSync attempts, in order
    threw,            \* per invocation: the attempts among them that threw
    sweeps,           \* per invocation: cleanup loops run
    updates,          \* per invocation: doc.update() calls issued, with their fate
    outcome,          \* per invocation: how the handler ended
    userAge,          \* per invocation: let userAge
    chunks,           \* per invocation: const chunks
    promptText,       \* per invocation: let promptText ("": not composed yet)
    timestamp         \* per invocation: const timestamp of the current reference

config == <<variant, GEMINI_API_KEY, photoPaths, snapshot, today>>
shared == <<record, writer, disk, clock, remoteFiles>>
locals == <<pc, idx, tempFiles, contentParts, assets, created, calls, generated,
            unlinks, threw, sweeps, updates, outcome, userAge, chunks, promptText,
            timestamp>>
vars == <<config, shared, locals>>

----------------------------------------------------------------------------
(* Values *)

Variants == {"marker", "current"}

\* const GEMINI_MODEL, and the literal the marker variant passes
GEMINI_MODEL(v) == IF v = "current" THEN "gemini-2.5-flash" ELSE "gemini-2.0-flash-001"

ErrorCategory == "Failed to process with Gemini AI"
ConfigMessage == "Gemini API key is not configured"
\* error.message of a rejected generateContent / doc.update (opaque texts)
GenerationMessage == "generateContent rejected"
DatastoreMessage == "update rejected"
\* result.text of a resolved generateContent (an opaque non-empty text)
GeneratedText == "fortune"
\* new Date().toISOString(): the value is not told apart here
ProcessedAt == "processedAt"

Absent == [kind |-> "absent"]
Text(t) == [kind |-> "text", text |-> t]

\* JavaScript truthiness of a document field: undefined and "" are falsy
Truthy(v) == ~(v.kind = "absent" \/ (v.kind = "text" /\ v.text = ""))

Range(s) == {s[k] : k \in DOMAIN s}


----------------------------------------------------------------------------
(* Pure pieces of the handler *)

\* The entry guard left out.
HasResultUnchecked(d) == FALSE

\* if (data.result) { ... return; }
HasResult(d) == Truthy(d.result)

\* The references of a document: cup1.jpg and cup2.jpg of one directory,
\* then those of the next, so that references 1 and 3 share their base name.
PhotoPath(k) ==
    [dir |-> (k + 1) \div 2, base |-> IF k % 2 = 1 THEN "cup1.jpg" ELSE "cup2.jpg"]

\* path.basename(photoPath)
BaseName(photoPath) == photoPath.base

\* path.join(os.tmpdir(), `temp_${timestamp}_${baseName}`) (the file name)
TempPath(ms, baseName) == "temp_" \o ToString(ms) \o "_" \o baseName

\* createPartFromUri(uploadedFile.uri, uploadedFile.mimeType) for reference k
FilePart(k) == [kind |-> "file", ref |-> k]
TextPart(t) == [kind |-> "text", text |-> t]

\* The part pushed without looking at uri and mimeType.
PartsAfterUploadAlways(parts, k, up) == Append(parts, FilePart(k))

\* if (uploadedFile.uri && uploadedFile.mimeType) contentParts.push(...)
\* up: "part" (uri and mimeType returned), "nouri" (one of them missing)
PartsAfterUpload(parts, k, up) ==
    IF up = "part" THEN Append(parts, FilePart(k)) ELSE parts

\* The prompt put in front of the file parts.
PushPromptFirst(parts, t) == <<TextPart(t)>> \o parts

\* contentParts.push(promptText)
PushPrompt(parts, t) == Append(parts, TextPart(t))

\* The temp file kept for cleanup only when the upload gave a part.
FilesAfterUploadPartOnly(tf, path, up) ==
    IF up = "part" THEN Append(tf, path) ELSE tf

\* The file the AI service holds after ai.files.upload for reference k of
\* invocation i resolved (the service names every upload anew)
RegisteredBy(i, k, up) == IF up \in {"part", "nouri"} THEN {<<i, k>>} ELSE {}

\* tempFiles.push(tempFilePath): reached when the upload resolved
FilesAfterUpload(tf, path, up) ==
    IF up \in {"part", "nouri"} THEN Append(tf, path) ELSE tf

\* `${n}` of a calendar field in an ISO date: two digits
Pad2(n) == IF n < 10 THEN "0" \o ToString(n) ELSE ToString(n)

\* The ISO text ("1990-05-15") of the day d of month m of year y
IsoText(y, m, d) == ToString(y) \o "-" \o Pad2(m) \o "-" \o Pad2(d)

\* The days told apart: birthdays and current dates are drawn from them
Years == {1990, 2024, 2025, 2026}
Months == {5, 8}
Days == {15, 28}

\* A JavaScript Date read with the getters of the zone it was written in
\* (getMonth counts from 0); InvalidDate: its time value is NaN
DateOf(y, m, d) == [valid |-> TRUE, year |-> y, month |-> m - 1, date |-> d]
InvalidDate == [valid |-> FALSE]
Calendar == {DateOf(y, m, d) : y \in Years, m \in Months, d \in Days}
DateText(date) == IsoText(date.year, date.month + 1, date.date)

\* new Date(text): the day the text spells; any other text gives an invalid
\* Date, it does not throw
NewDate(text) ==
    IF \E date \in Calendar : DateText(date) = text
    THEN CHOOSE date \in Calendar : DateText(date) = text
    ELSE InvalidDate

\* The values of let userAge (Unset: line 343 not reached)
Unset == [kind |-> "unset"]
Null == [kind |-> "null"]
NaN == [kind |-> "nan"]
Num(n) == [kind |-> "num", n |-> n]

\* The age taken as the difference of the years alone.
CalculateAgeByYear(userBirthday, now) ==
    IF ~Truthy(userBirthday) THEN Null
    ELSE LET birthDate == NewDate(userBirthday.text)
         IN  IF birthDate.valid THEN Num(now.year - birthDate.year) ELSE NaN

\* let userAge = null; if (userBirthday) { ... }: arithmetic on an invalid
\* Date gives NaN, both comparisons with NaN are false, so userAge = age = NaN
CalculateAge(userBirthday, now) ==
    IF ~Truthy(userBirthday) THEN Null
    ELSE LET birthDate == NewDate(userBirthday.text)
         IN  IF ~birthDate.valid THEN NaN
             ELSE LET age == now.year - birthDate.year
                      monthDiff == now.month - birthDate.month
                  IN  IF monthDiff < 0 \/ (monthDiff = 0 /\ now.date < birthDate.date)
                      THEN Num(age - 1)
                      ELSE Num(age)

\* The age clause pushed for every age that is a number.
HasAgeChunkAnyNumber(years) == years.kind = "num"

\* if (userAge !== null && userAge > 0): NaN > 0 is false
HasAgeChunk(years) == years.kind = "num" /\ years.n > 0

Chunk(label, v) == IF Truthy(v) THEN <<label \o " " \o v.text>> ELSE <<>>

\* The clauses pushed in the order age, name, relationship, employment.
ChunksAgeFirst(data, years) ==
    (IF HasAgeChunk(years) THEN <<"yasim " \o ToString(years.n)>> ELSE <<>>)
    \o Chunk("ismim", data.userName)
    \o Chunk("medeni durumum", data.userRelationStatus)
    \o Chunk("is durumum", data.userEmploymentStatus)

\* const chunks = []; if (userName) chunks.push(`ismim ${userName}`); ...
\* (texts in ASCII)
Chunks(data, years) ==
    Chunk("ismim", data.userName)
    \o (IF HasAgeChunk(years) THEN <<"yasim " \o ToString(years.n)>> ELSE <<>>)
    \o Chunk("medeni durumum", data.userRelationStatus)
    \o Chunk("is durumum", data.userEmploymentStatus)

\* data?.userName || "kullanici" of the marker variant, and its clause test
\* userName && userName !== "kullanici"
MarkerChunk(label, v, placeholder) ==
    LET value == IF Truthy(v) THEN v.text ELSE placeholder
    IN  IF value # "" /\ value # placeholder THEN <<label \o " " \o value>> ELSE <<>>

\* the chunks of the marker variant: the birthday itself, no age
MarkerChunks(data) ==
    MarkerChunk("ismim", data.userName, "kullanici")
    \o MarkerChunk("dogum tarihim", data.userBirthday, "belirtilmemis")
    \o MarkerChunk("medeni durumum", data.userRelationStatus, "belirtilmemis")
    \o MarkerChunk("is durumum", data.userEmploymentStatus, "belirtilmemis")

\* Array.prototype.join
RECURSIVE Join(_, _)
Join(texts, separator) ==
    IF texts = <<>> THEN ""
    ELSE IF Len(texts) = 1 THEN texts[1]
    ELSE texts[1] \o separator \o Join(Tail(texts), separator)

\* const PROMPT_FINE_TUNE
PROMPT_FINE_TUNE == <<"Dil Turkce olsun.">>

\* The prompt without the fine tune instructions.
PromptTextNoFineTune(v, clauses) ==
    IF Len(clauses) > 0 THEN Join(clauses, ", ") \o " kahve falimi yorumla."
    ELSE "Kahve falimi yorumla."

\* let promptText = chunks.length > 0 ? ... : ...; promptText += " " + ...
\* the marker variant ends the clauses with a full stop and adds nothing
PromptText(v, clauses) ==
    IF v = "current"
    THEN (IF Len(clauses) > 0 THEN Join(clauses, ", ") \o " kahve falimi yorumla."
          ELSE "Kahve falimi yorumla.")
         \o (IF Len(PROMPT_FINE_TUNE) > 0 THEN " " \o Join(PROMPT_FINE_TUNE, " ")
             ELSE "")
    ELSE IF Len(clauses) > 0 THEN Join(clauses, ", ") \o ". Kahve falimi yorumla."
    ELSE "Kahve falimi yorumla."

\* db.collection("coffee").doc(docId).update({status: "processing"})
MarkerUpdate == [status |-> "processing"]

\* The success path setting the status alone (the result left for another write).
SuccessUpdateStatusOnly(v, text, prompt) == [status |-> "completed"]

\* the update of the success path
SuccessUpdate(v, text, prompt) ==
    IF v = "current"
    THEN [result |-> Text(text),
          ai |-> [kind |-> "ai", promptText |-> prompt,
                  processedAt |-> ProcessedAt, source |-> GEMINI_MODEL(v)],
          status |-> "completed"]
    ELSE [result |-> [kind |-> "analysis", analysis |-> text,
                      processedAt |-> ProcessedAt, source |-> GEMINI_MODEL(v)],
          status |-> "completed"]

\* The fixed category written in place of the caught error's text.
ErrorDetailsCategory(message) == ErrorCategory

\* error instanceof Error ? error.message : String(error)
ErrorDetails(message) == message

\* The catch block writing the error payload without the status.
ErrorUpdateNoStatus(v, message) ==
    [result |-> [kind |-> "error", error |-> ErrorCategory,
                 errorDetails |-> ErrorDetails(message),
                 processedAt |-> ProcessedAt, source |-> GEMINI_MODEL(v)]]

\* the update of the catch block
ErrorUpdate(v, message) ==
    [result |-> [kind |-> "error", error |-> ErrorCategory,
                 errorDetails |-> ErrorDetails(message),
                 processedAt |-> ProcessedAt, source |-> GEMINI_MODEL(v)],
     status |-> "error"]

\* doc.update(u): the fields of u replace the document's, the others stay
Merge(doc, u) == [f \in DOMAIN doc |-> IF f \in DOMAIN u THEN u[f] ELSE doc[f]]

Pending(u) == [fields |-> u, fate |-> "pending"]

\* An update taken as applied whether its promise resolved or rejected.
SettleAsApplied(log, fate) == [log EXCEPT ![Len(log)].fate = "applied"]

\* await update(...): the promise resolved (applied) or rejected; a rejected
\* update is taken to have left the document alone
Settle(log, fate) == [log EXCEPT ![Len(log)].fate = fate]
LastUpdate(i) == updates[i][Len(updates[i])]

----------------------------------------------------------------------------
(* Stretches of handler code shared by several continuations *)

\* The loop left at the first unlinkSync that throws.
AttemptedUntilThrow(tf, throws) ==
    IF \E k \in DOMAIN tf : tf[k] \in throws
    THEN SubSeq(tf, 1, CHOOSE k \in DOMAIN tf :
                          /\ tf[k] \in throws
                          /\ \A l \in 1..(k - 1) : tf[l] \notin throws)
    ELSE tf

\* The files the cleanup loop calls unlinkSync on: the try/catch is inside the
\* loop body, so a throw (throws: the files whose unlink throws) ends nothing
Attempted(tf, throws) == tf

\* for (const tempFile of tempFiles) { try { fs.unlinkSync(tempFile) } catch {} }
\* followed by the doc.update(u) the code issues next.  failed: the files whose
\* unlink throws although they exist; a file that is gone always throws.
SweepThenUpdate(i, u, log, next, failed) ==
    LET throws == failed \cup (Range(tempFiles[i]) \ disk)
        tried == Attempted(tempFiles[i], throws)
        Throws(f) == f \in throws
    IN
    /\ unlinks' = [unlinks EXCEPT ![i] = @ \o tried]
    /\ threw' = [threw EXCEPT ![i] = @ \o SelectSeq(tried, Throws)]
    /\ sweeps' = [sweeps EXCEPT ![i] = @ + 1]
    /\ disk' = disk \ (Range(tried) \ throws)
    /\ updates' = [updates EXCEPT ![i] = Append(log, Pending(u))]
    /\ pc' = [pc EXCEPT ![i] = next]
    /\ UNCHANGED <<idx, tempFiles, contentParts, assets, created, calls, outcome,
                   userAge, chunks, promptText, clock, timestamp>>

\* catch (error) { cleanup; await update({result: {error...}, status: "error"}) }
Catch(i, message, log) ==
    \E failed \in SUBSET (Range(tempFiles[i]) \cap disk) :
        SweepThenUpdate(i, ErrorUpdate(variant, message), log, "await_error", failed)

\* lines 336-364: the attributes are read and the age is derived (the marker
\* variant derives no age)
DeriveAge(i) ==
    userAge' = [userAge EXCEPT ![i] =
                   IF variant = "current"
                   THEN CalculateAge(snapshot.userBirthday, today)
                   ELSE @]

\* lines 418-446: the chunks and the prompt text, from the age derived
\* earlier in the run (in this stretch when there is no reference)
ComposePrompt(i) ==
    LET cs == IF variant = "current" THEN Chunks(snapshot, userAge'[i])
              ELSE MarkerChunks(snapshot)
    IN  /\ chunks' = [chunks EXCEPT ![i] = cs]
        /\ promptText' = [promptText EXCEPT ![i] = PromptText(variant, cs)]

\* A reference whose download failed taken once more.
NextReferenceRetry(k, as) ==
    IF k > 0 /\ Len(as) = k /\ as[k] = "download_failed" THEN k ELSE k + 1

\* for (const photoPath of photoPaths): the reference after reference k,
\* however the handling of k ended (as: the outcomes so far)
NextReference(k, as) == k + 1

\* const tempFilePath of the reference invocation i is at
TempFilePath(i) == TempPath(timestamp[i], BaseName(photoPaths[idx[i]]))

\* The asset loop after reference k is done with (k = 0: before the first):
\* start the download of reference k + 1, or leave the loop, push the prompt
\* and call generateContent.  Date.now() returns the millisecond of the latest
\* reading on the instance or a later one, and a later one than the previous
\* reading of the same run (a download and an upload were awaited in between).
Continue(i, k, parts, tf, as, log) ==
    /\ tempFiles' = [tempFiles EXCEPT ![i] = tf]
    /\ assets' = [assets EXCEPT ![i] = as]
    /\ updates' = [updates EXCEPT ![i] = log]
    /\ IF NextReference(k, as) <= Len(photoPaths)
       THEN /\ idx' = [idx EXCEPT ![i] = NextReference(k, as)]
            /\ \E ms \in {clock, clock + 1} :
                  /\ ms > timestamp[i]
                  /\ clock' = ms
                  /\ timestamp' = [timestamp EXCEPT ![i] = ms]
            /\ contentParts' = [contentParts EXCEPT ![i] = parts]
            /\ calls' = [calls EXCEPT ![i].download = @ + 1]
            /\ pc' = [pc EXCEPT ![i] = "await_download"]
            /\ UNCHANGED <<generated, chunks, promptText>>
       ELSE /\ idx' = [idx EXCEPT ![i] = k]
            /\ ComposePrompt(i)
            /\ contentParts' = [contentParts EXCEPT ![i] =
                                   PushPrompt(parts, promptText'[i])]
            /\ calls' = [calls EXCEPT ![i].generate = @ + 1]
            /\ generated' = [generated EXCEPT ![i] = "pending"]
            /\ pc' = [pc EXCEPT ![i] = "await_generate"]
            /\ UNCHANGED <<clock, timestamp>>
    /\ UNCHANGED <<unlinks, threw, sweeps, outcome>>

\* The try block from the API key check on.
KeyCheck(i, log) ==
    IF ~GEMINI_API_KEY
    THEN /\ Catch(i, ConfigMessage, log)
         /\ UNCHANGED <<created, generated>>
    ELSE /\ DeriveAge(i)
         /\ Continue(i, 0, contentParts[i], tempFiles[i], assets[i], log)
         /\ UNCHANGED <<disk, created>>

Return(i, how) ==
    /\ pc' = [pc EXCEPT ![i] = "done"]
    /\ outcome' = [outcome EXCEPT ![i] = how]

----------------------------------------------------------------------------
(* The created document and the deployment *)

\* A document is created without a result, or (a copy of a processed
\* document, an import) with the result and terminal status it already had.
Doc(status, result, name, birthday, relation, employment) ==
    [status |-> status, result |-> result, ai |-> Absent,
     userName |-> name, userBirthday |-> birthday,
     userRelationStatus |-> relation, userEmploymentStatus |-> employment]

\* Documents that carry no user attribute
CreatedDocs ==
    { Doc("absent", Absent, Absent, Absent, Absent, Absent),
      Doc("pending", Text(""), Absent, Absent, Absent, Absent),
      Doc("completed", Text("earlier"), Absent, Absent, Absent, Absent) }

\* No delivery has happened
Start ==
    /\ record = snapshot
    /\ writer = 0
    /\ disk = {}
    /\ clock = 0
    /\ remoteFiles = {}
    /\ pc = [i \in Invocations |-> "idle"]
    /\ idx = [i \in Invocations |-> 0]
    /\ tempFiles = [i \in Invocations |-> <<>>]
    /\ contentParts = [i \in Invocations |-> <<>>]
    /\ assets = [i \in Invocations |-> <<>>]
    /\ created = [i \in Invocations |-> {}]
    /\ calls = [i \in Invocations |-> [download |-> 0, upload |-> 0, generate |-> 0]]
    /\ generated = [i \in Invocations |-> "none"]
    /\ unlinks = [i \in Invocations |-> <<>>]
    /\ threw = [i \in Invocations |-> <<>>]
    /\ sweeps = [i \in Invocations |-> 0]
    /\ updates = [i \in Invocations |-> <<>>]
    /\ outcome = [i \in Invocations |-> "none"]
    /\ userAge = [i \in Invocations |-> Unset]
    /\ chunks = [i \in Invocations |-> <<>>]
    /\ promptText = [i \in Invocations |-> ""]
    /\ timestamp = [i \in Invocations |-> 0]

\* The day of the example of the age derivation
ExampleToday == DateOf(2025, 8, 28)

Init ==
    /\ variant \in Variants
    /\ GEMINI_API_KEY \in BOOLEAN
    /\ \E n \in 0..(MaxCalls - 1) : photoPaths = [k \in 1..n |-> PhotoPath(k)]
    /\ snapshot \in CreatedDocs
    /\ today = ExampleToday
    /\ Start

----------------------------------------------------------------------------
(* The continuations of the handler *)

\* The event is delivered: the handler runs from its first line to its first
\* await (or returns).  hasData: event.data is defined.
Invoke(i) ==
    /\ pc[i] = "idle"
    /\ \A j \in Invocations : j < i => pc[j] # "idle"
    /\ i * (Len(photoPaths) + 1) <= MaxCalls
    /\ \E hasData \in BOOLEAN :
        IF ~hasData
        THEN /\ Return(i, "nodata")
             /\ UNCHANGED <<idx, tempFiles, contentParts, assets, created, calls,
                            generated, unlinks, threw, sweeps, updates, disk,
                            userAge, chunks, promptText, clock, timestamp>>
        ELSE IF HasResult(snapshot)
        THEN /\ Return(i, "skipped")
             /\ UNCHANGED <<idx, tempFiles, contentParts, assets, created, calls,
                            generated, unlinks, threw, sweeps, updates, disk,
                            userAge, chunks, promptText, clock, timestamp>>
        ELSE IF variant = "marker"
        THEN /\ updates' = [updates EXCEPT ![i] = Append(@, Pending(MarkerUpdate))]
             /\ pc' = [pc EXCEPT ![i] = "await_marker"]
             /\ UNCHANGED <<idx, tempFiles, contentParts, assets, created, calls,
                            generated, unlinks, threw, sweeps, outcome, disk,
                            userAge, chunks, promptText, clock, timestamp>>
        ELSE KeyCheck(i, updates[i])
    /\ UNCHANGED <<config, record, writer, remoteFiles>>

\* await update({status: "processing"}) resolves or rejects (marker variant)
MarkerResolve(i) ==
    /\ pc[i] = "await_marker"
    /\ \E ok \in BOOLEAN :
        IF ok
        THEN /\ record' = Merge(record, LastUpdate(i).fields)
             /\ writer' = i
             /\ KeyCheck(i, Settle(updates[i], "applied"))
        ELSE /\ Catch(i, DatastoreMessage, Settle(updates[i], "rejected"))
             /\ UNCHANGED <<record, writer, created, generated>>
    /\ UNCHANGED <<config, remoteFiles>>

\* await file.download({destination: tempFilePath}) resolves or rejects; a
\* rejected download is taken to leave no file behind
DownloadResolve(i) ==
    /\ pc[i] = "await_download"
    /\ \E ok \in BOOLEAN :
        IF ok
        THEN /\ disk' = disk \cup {TempFilePath(i)}
             /\ created' = [created EXCEPT ![i] = @ \cup {TempFilePath(i)}]
             /\ calls' = [calls EXCEPT ![i].upload = @ + 1]
             /\ pc' = [pc EXCEPT ![i] = "await_upload"]
             /\ UNCHANGED <<idx, tempFiles, contentParts, assets, generated,
                            unlinks, threw, sweeps, updates, outcome,
                            userAge, chunks, promptText, clock, timestamp>>
        ELSE /\ UNCHANGED <<disk, created, userAge>>
             /\ Continue(i, idx[i], contentParts[i], tempFiles[i],
                         Append(assets[i], "download_failed"), updates[i])
    /\ UNCHANGED <<config, record, writer, remoteFiles>>

\* await ai.files.upload({file: tempFilePath, ...}) resolves or rejects
UploadResolve(i) ==
    /\ pc[i] = "await_upload"
    /\ UNCHANGED <<config, record, writer, disk, created, userAge>>
    /\ \E up \in {"part", "nouri", "upload_failed"} :
        /\ remoteFiles' = remoteFiles \cup RegisteredBy(i, idx[i], up)
        /\ Continue(i, idx[i],
                 IF up = "upload_failed" THEN contentParts[i]
                 ELSE PartsAfterUpload(contentParts[i], idx[i], up),
                 FilesAfterUpload(tempFiles[i], TempFilePath(i), up),
                 Append(assets[i], up), updates[i])

\* await ai.models.generateContent(...) resolves or rejects
GenerateResolve(i) ==
    /\ pc[i] = "await_generate"
    /\ \E ok \in BOOLEAN :
        /\ IF ok
           THEN \E failed \in SUBSET (Range(tempFiles[i]) \cap disk) :
                   SweepThenUpdate(i, SuccessUpdate(variant, GeneratedText, promptText[i]),
                                   updates[i], "await_success", failed)
           ELSE Catch(i, GenerationMessage, updates[i])
        /\ generated' = [generated EXCEPT ![i] = IF ok THEN "text" ELSE "rejected"]
    /\ UNCHANGED <<config, record, writer, created, remoteFiles>>

\* await update({result, ai, status: "completed"}) resolves or rejects
SuccessUpdateResolve(i) ==
    /\ pc[i] = "await_success"
    /\ \E ok \in BOOLEAN :
        IF ok
        THEN /\ record' = Merge(record, LastUpdate(i).fields)
             /\ writer' = i
             /\ updates' = [updates EXCEPT ![i] = Settle(@, "applied")]
             /\ Return(i, "returned")
             /\ UNCHANGED <<idx, tempFiles, contentParts, assets, created, calls,
                            generated, unlinks, threw, sweeps, disk,
                            userAge, chunks, promptText, clock, timestamp>>
        ELSE /\ Catch(i, DatastoreMessage, Settle(updates[i], "rejected"))
             /\ UNCHANGED <<record, writer, created, generated>>
    /\ UNCHANGED <<config, remoteFiles>>

\* await update({result: {error...}, status: "error"}) resolves or rejects;
\* a rejection inside the catch block leaves the handler as a thrown error
ErrorUpdateResolve(i) ==
    /\ pc[i] = "await_error"
    /\ \E ok \in BOOLEAN :
        /\ IF ok
           THEN /\ record' = Merge(record, LastUpdate(i).fields)
                /\ writer' = i
                /\ Return(i, "returned")
           ELSE /\ Return(i, "thrown")
                /\ UNCHANGED <<record, writer>>
        /\ updates' = [updates EXCEPT ![i] = Settle(@, IF ok THEN "applied" ELSE "rejected")]
    /\ UNCHANGED <<config, idx, tempFiles, contentParts, assets, created, calls,
                   generated, unlinks, threw, sweeps, disk, userAge, chunks, promptText,
                   clock, timestamp, remoteFiles>>

Step(i) ==
    \/ Invoke(i)
    \/ MarkerResolve(i)
    \/ DownloadResolve(i)
    \/ UploadResolve(i)
    \/ GenerateResolve(i)
    \/ SuccessUpdateResolve(i)
    \/ ErrorUpdateResolve(i)

Next == \E i \in Invocations : Step(i)

Spec == Init /\ [][Next]_vars

\* Node's event loop runs every continuation whose awaited call has settled,
\* and every awaited call settles (no host timeout).
FairSpec == Spec /\ \A i \in Invocations : WF_vars(Step(i))

----------------------------------------------------------------------------
(* Documents with user attributes *)

Names == {Absent, Text(""), Text("Ayse")}
Relations == {Absent, Text("evli")}
Employments == {Absent, Text("calisiyor")}
Birthdays == {Absent, Text(""), Text("garbage")} \cup {Text(DateText(date)) : date \in Calendar}

\* Every combination of attributes, on a document without a result
AttributeDocs ==
    {Doc("absent", Absent, name, birthday, relation, employment) :
        name \in Names, birthday \in Birthdays,
        relation \in Relations, employment \in Employments}

\* The age derivation and the prompt composition on their own: the two
\* synchronous pieces of the handler applied to every document of
\* AttributeDocs on every day of the Calendar.
PureInit ==
    /\ variant \in Variants
    /\ GEMINI_API_KEY = TRUE
    /\ photoPaths = <<>>
    /\ snapshot \in AttributeDocs
    /\ today \in Calendar
    /\ Start

AgeStep(i) ==
    /\ variant = "current"
    /\ userAge[i] = Unset
    /\ DeriveAge(i)
    /\ UNCHANGED <<config, shared, pc, idx, tempFiles, contentParts, assets, created,
                   calls, generated, unlinks, threw, sweeps, updates, outcome, chunks,
                   promptText, timestamp>>

PromptStep(i) ==
    /\ variant = "current" => userAge[i] # Unset
    /\ promptText[i] = ""
    /\ UNCHANGED <<config, shared, pc, idx, tempFiles, contentParts, assets, created,
                   calls, generated, unlinks, threw, sweeps, updates, outcome, userAge,
                   timestamp>>
    /\ ComposePrompt(i)

PureNext == \E i \in Invocations : AgeStep(i) \/ PromptStep(i)

PureSpec == PureInit /\ [][PureNext]_vars

\* The handler on documents whose birthday is absent, empty, unparseable, in
\* the future, within the last year, a year ago to the day, or long ago, with
\* the other attributes all absent or all present.
UserBirthdays ==
    {Absent, Text(""), Text("garbage"), Text("2026-05-15"), Text("2025-05-15"),
     Text("2024-08-28"), Text("1990-05-15")}

UserDocs ==
    {Doc("absent", Absent, Absent, birthday, Absent, Absent) : birthday \in UserBirthdays}
    \cup {Doc("absent", Absent, Text("Ayse"), birthday, Text("evli"), Text("calisiyor")) :
             birthday \in UserBirthdays}

UserInit ==
    /\ variant \in Variants
    /\ GEMINI_API_KEY = TRUE
    /\ \E n \in 0..1 : photoPaths = [k \in 1..n |-> PhotoPath(k)]
    /\ snapshot \in UserDocs
    /\ today = ExampleToday
    /\ Start

UserSpec == UserInit /\ [][Next]_vars

----------------------------------------------------------------------------
(* Properties *)

TerminalStatuses == {"completed", "error"}
NoCalls == [download |-> 0, upload |-> 0, generate |-> 0]

\* The handler of invocation i went past both early returns.
Passed(i) == pc[i] # "idle" /\ outcome[i] \notin {"nodata", "skipped"}
Done(i) == pc[i] = "done"
Issued(i) == {updates[i][k].fields : k \in DOMAIN updates[i]}
Rejected(i) == \E k \in DOMAIN updates[i] : updates[i][k].fate = "rejected"
AnyRejected == \E i \in Invocations : Rejected(i)

\* C1: an invocation whose event data carries a non-empty result returns at
\* the guard: it has issued no datastore update, no download, no AI upload,
\* no generation call and no file deletion, and the stored document is as it
\* was created.
C1_SkipsRecordWithResult ==
    \A i \in Invocations :
        (pc[i] # "idle" /\ outcome[i] # "nodata" /\ Truthy(snapshot.result)) =>
            /\ pc[i] = "done"
            /\ outcome[i] = "skipped"
            /\ updates[i] = <<>>
            /\ calls[i] = NoCalls
            /\ unlinks[i] = <<>>
            /\ sweeps[i] = 0
            /\ created[i] = {}
            /\ record = snapshot

C1_Witness ==
    \E i \in Invocations :
        /\ outcome[i] = "skipped"
        /\ Truthy(snapshot.result)
        /\ Len(photoPaths) > 0

\* C2: once the stored document carries a result, no step of any invocation
\* issues a generation call or changes the document's result or status.
C2_NeverReprocessed ==
    [][Truthy(record.result) =>
          /\ \A i \in Invocations : calls'[i].generate = calls[i].generate
          /\ record'.result = record.result
          /\ record'.status = record.status]_vars

C4_ReachesTerminal ==
    /\ \A i \in Invocations :
          Passed(i) ~> (AnyRejected \/ (Done(i) /\ record.status \in TerminalStatuses))
    /\ <>[](record.status # "processing" \/ AnyRejected)

C4_Witness ==
    \E i \in Invocations :
        /\ variant = "marker"
        /\ Passed(i) /\ Done(i) /\ ~Rejected(i)
        /\ Len(updates[i]) = 2
        /\ writer = i
        /\ record.status \in TerminalStatuses

\* C5: a stored document with a non-empty result has status completed or
\* error, in every reachable state.
C5_ResultImpliesTerminal ==
    Truthy(record.result) => record.status \in TerminalStatuses

\* C6: when an invocation has ended, every temp file its downloads created
\* has had exactly one deletion attempt, and nothing else was attempted.
C6_DeletionsMatchCreated ==
    \A i \in Invocations :
        Done(i) =>
            /\ Len(unlinks[i]) = Cardinality(created[i])
            /\ \A f \in created[i] :
                  Cardinality({k \in DOMAIN unlinks[i] : unlinks[i][k] = f}) = 1

\* C7: an invocation that passed the entry guard never runs the cleanup loop
\* twice, never runs it while its generation call is outstanding or not yet
\* issued with the call still to come, and has run it once when it ends.
C7_SweepExactlyOnce ==
    \A i \in Invocations :
        Passed(i) =>
            /\ sweeps[i] <= 1
            /\ generated[i] = "pending" => sweeps[i] = 0
            /\ Done(i) => sweeps[i] = 1

\* The content parts of the references whose download and upload gave a part.
MaterializedParts(i) ==
    LET IsPart(k) == assets[i][k] = "part"
        ks == SelectSeq([k \in 1..Len(assets[i]) |-> k], IsPart)
    IN  [j \in 1..Len(ks) |-> [kind |-> "file", ref |-> ks[j]]]

\* C8: whichever references fail at download or upload, an invocation with
\* the API key set (and its marker update applied) issues the generation
\* request once all references are handled, with the parts of exactly the
\* references that gave a part, followed by the prompt; when generation
\* resolves the completed update is issued and, applied, leaves the document
\* completed; an error update is only ever issued after a missing key, a
\* rejected generation or a rejected datastore update.
C8_AssetFailuresTolerated ==
    \A i \in Invocations :
        /\ generated[i] # "none" =>
              /\ Len(assets[i]) = Len(photoPaths)
              /\ calls[i].generate = 1
              /\ contentParts[i] =
                    MaterializedParts(i) \o <<[kind |-> "text", text |-> promptText[i]]>>
        /\ ( /\ Passed(i) /\ GEMINI_API_KEY /\ ~Rejected(i)
             /\ pc[i] # "await_marker"
             /\ Len(assets[i]) = Len(photoPaths) ) => generated[i] # "none"
        /\ generated[i] = "text" => \E u \in Issued(i) : u.status = "completed"
        /\ (generated[i] = "text" /\ Done(i) /\ ~Rejected(i) /\ writer = i)
              => record.status = "completed"
        /\ (\E u \in Issued(i) : u.status = "error") =>
              (~GEMINI_API_KEY \/ generated[i] = "rejected" \/ Rejected(i))

C8_Witness ==
    \E i \in Invocations :
        /\ Len(photoPaths) >= 3
        /\ assets[i] = <<"download_failed", "part", "upload_failed">>
        /\ Done(i) /\ writer = i
        /\ record.status = "completed"

\* C9: with the API key absent, an invocation that passed the entry guard
\* issues no download, no AI upload and no generation call, every error
\* update it issues carries the fixed category and the configuration
\* message, and it has issued one when it ends.
C9_MissingKeyFailsFast ==
    \A i \in Invocations :
        (~GEMINI_API_KEY /\ Passed(i)) =>
            /\ calls[i] = NoCalls
            /\ \A u \in Issued(i) :
                  u.status = "error" =>
                      /\ u.result.error = "Failed to process with Gemini AI"
                      /\ u.result.errorDetails = "Gemini API key is not configured"
            /\ Done(i) => \E u \in Issued(i) : u.status = "error"

\* C10: when the generation call of an invocation is rejected, the invocation
\* issues no completed update, the update it issues next is the error update
\* {result: {error: category, errorDetails: the rejection's text, processedAt,
\* source: model identifier}, status: "error"}, and that update, applied,
\* leaves the document with exactly that result and status.
C10_GenerationFailureRecorded ==
    \A i \in Invocations :
        generated[i] = "rejected" =>
            /\ \A u \in Issued(i) : u.status # "completed"
            /\ updates[i] # <<>>
            /\ LastUpdate(i).fields =
                  [result |-> [kind |-> "error",
                               error |-> "Failed to process with Gemini AI",
                               errorDetails |-> GenerationMessage,
                               processedAt |-> ProcessedAt,
                               source |-> IF variant = "current"
                                          THEN "gemini-2.5-flash"
                                          ELSE "gemini-2.0-flash-001"],
                   status |-> "error"]
            /\ (LastUpdate(i).fate = "applied" /\ writer = i) =>
                  /\ record.status = "error"
                  /\ record.result = LastUpdate(i).fields.result

C10_Witness ==
    \E i \in Invocations :
        /\ generated[i] = "rejected"
        /\ Done(i) /\ writer = i
        /\ LastUpdate(i).fate = "applied"
        /\ record.status = "error"
        /\ Len(tempFiles[i]) > 0

\* C11: the contents of a generation request end with the prompt text, which
\* is its only text part; every element before it is the part of a reference
\* whose upload gave one, each such reference appears once, and the parts
\* stand in the order of their references in photoPaths.  Before the request
\* is issued contentParts holds no text part.
C11_PartsThenPrompt ==
    \A i \in Invocations :
        LET c == contentParts[i] IN
        IF generated[i] = "none"
        THEN \A j \in DOMAIN c : c[j].kind = "file"
        ELSE /\ Len(c) >= 1
             /\ c[Len(c)].kind = "text"
             /\ \A j \in 1..(Len(c) - 1) :
                   /\ c[j].kind = "file"
                   /\ c[j].ref \in DOMAIN photoPaths
                   /\ assets[i][c[j].ref] = "part"
                   /\ \A l \in 1..(Len(c) - 1) : j < l => c[j].ref < c[l].ref
             /\ \A k \in DOMAIN assets[i] :
                   assets[i][k] = "part" => \E j \in 1..(Len(c) - 1) : c[j].ref = k

C11_Witness ==
    \E i \in Invocations :
        /\ generated[i] = "text"
        /\ assets[i] = <<"part", "nouri", "part">>
        /\ Len(contentParts[i]) = 3

\* An attribute is present when the document holds a non-empty text for it.
Present(v) == v.kind = "text" /\ v.text # ""
NonEmpty(t) == t # ""

\* The age as the claims state it: the difference of the years, less one when
\* (month, day) of now comes before (month, day) of the birth date.
StatedAge(y, m, d, now) ==
    (now.year - y)
    - (IF now.month + 1 < m \/ (now.month + 1 = m /\ now.date < d) THEN 1 ELSE 0)

\* The birthday spells a day that gives a positive age.
MeaningfulAge(doc, now) ==
    \E y \in Years, m \in Months, d \in Days :
        /\ doc.userBirthday = Text(IsoText(y, m, d))
        /\ StatedAge(y, m, d, now) > 0

ClosingInstruction == " kahve falimi yorumla."
FallbackInstruction == "Kahve falimi yorumla."
PolicyDirectives == " Dil Turkce olsun."

\* C12: the prompt of the current handler is determined by the attributes:
\* the clauses of the present ones among name, (positive) age, relationship,
\* employment, in this order, joined by ", ", then the closing instruction
\* (the fallback instruction when there is no clause), then the policy
\* directives; all invocations for one document compose the same prompt.
C12_PromptFromAttributes ==
    \A i \in Invocations :
        (variant = "current" /\ promptText[i] # "") =>
            LET clause(label, v) == IF Present(v) THEN label \o " " \o v.text ELSE ""
                age == IF userAge[i].kind = "num" /\ userAge[i].n > 0
                       THEN "yasim " \o ToString(userAge[i].n) ELSE ""
                cl == SelectSeq(<<clause("ismim", snapshot.userName), age,
                                  clause("medeni durumum", snapshot.userRelationStatus),
                                  clause("is durumum", snapshot.userEmploymentStatus)>>,
                                NonEmpty)
            IN  /\ chunks[i] = cl
                /\ promptText[i] =
                      (IF cl = <<>> THEN FallbackInstruction
                       ELSE Join(cl, ", ") \o ClosingInstruction) \o PolicyDirectives
                /\ \A j \in Invocations :
                      promptText[j] # "" => promptText[j] = promptText[i]

C12_Witness ==
    \E i \in Invocations :
        /\ variant = "current"
        /\ promptText[i] = "ismim Ayse, yasim 35, medeni durumum evli, is durumum calisiyor kahve falimi yorumla. Dil Turkce olsun."

\* C13: for a document with no name, relationship and employment and with a
\* birthday that is absent or gives no positive age, the current handler
\* composes exactly the fallback instruction followed by the policy
\* directives, with no clause; this text ends the generation request and is
\* the ai.promptText of the success update and of the document it leaves.
C13_FallbackPrompt ==
    \A i \in Invocations :
        ( /\ variant = "current"
          /\ ~Present(snapshot.userName)
          /\ ~Present(snapshot.userRelationStatus)
          /\ ~Present(snapshot.userEmploymentStatus)
          /\ ~MeaningfulAge(snapshot, today) ) =>
            /\ chunks[i] = <<>>
            /\ promptText[i] \in {"", "Kahve falimi yorumla. Dil Turkce olsun."}
            /\ generated[i] # "none" =>
                  contentParts[i][Len(contentParts[i])] =
                      TextPart("Kahve falimi yorumla. Dil Turkce olsun.")
            /\ \A k \in DOMAIN updates[i] :
                  updates[i][k].fields.status = "completed" =>
                      updates[i][k].fields.ai.promptText =
                          "Kahve falimi yorumla. Dil Turkce olsun."
            /\ (writer = i /\ record.status = "completed") =>
                  record.ai.promptText = "Kahve falimi yorumla. Dil Turkce olsun."

C13_Witness ==
    /\ variant = "current"
    /\ snapshot.userBirthday = Text("2026-05-15")
    /\ ~Present(snapshot.userName)
    /\ record.status = "completed"
    /\ record.ai.kind = "ai"
    /\ record.ai.promptText = "Kahve falimi yorumla. Dil Turkce olsun."

\* C14: for every birthday and current day of the calendar, the derived age
\* is the difference of the years, less one exactly when (month, day) of the
\* current day precedes (month, day) of the birthday; born 1990-05-15, the
\* age on 2025-08-28 is 35.
C14_AgeByCalendar ==
    \A i \in Invocations :
        userAge[i] # Unset =>
            /\ \A y \in Years, m \in Months, d \in Days :
                  snapshot.userBirthday = Text(IsoText(y, m, d)) =>
                      userAge[i] = Num(StatedAge(y, m, d, today))
            /\ (snapshot.userBirthday = Text("1990-05-15") /\ today = DateOf(2025, 8, 28)) =>
                  userAge[i] = Num(35)

C14_Witness ==
    \E i \in Invocations :
        /\ snapshot.userBirthday = Text("1990-05-15")
        /\ today = DateOf(2025, 8, 28)
        /\ userAge[i] = Num(35)

\* The age clauses of positive ages
AgeClauses ==
    {"yasim " \o ToString(p[1] - p[2]) : p \in {q \in Years \X Years : q[1] > q[2]}}

\* C15: the prompt of the current handler has an age clause exactly when the
\* birthday spells a day that gives a positive age, and then one; a birthday
\* that is absent, unparseable, in the future or within the last year gives
\* none (no clause of a zero, negative or NaN age either), the handler goes on
\* to the generation call, and an error status or a thrown error comes only
\* from a rejected generation or datastore call.
C15_AgeClauseIffPositive ==
    \A i \in Invocations :
        variant = "current" =>
            /\ promptText[i] # "" =>
                  /\ (\E c \in Range(chunks[i]) : c \in AgeClauses)
                        <=> MeaningfulAge(snapshot, today)
                  /\ \A c \in Range(chunks[i]) :
                        c \in AgeClauses \cup {"ismim Ayse", "medeni durumum evli",
                                               "is durumum calisiyor"}
                  /\ Cardinality({k \in DOMAIN chunks[i] : chunks[i][k] \in AgeClauses}) <= 1
            /\ (Passed(i) /\ GEMINI_API_KEY) =>
                  /\ userAge[i] # Unset
                  /\ pc[i] \in {"await_download", "await_upload"} \/ generated[i] # "none"
            /\ (\E k \in DOMAIN updates[i] : updates[i][k].fields.status = "error") =>
                  (~GEMINI_API_KEY \/ generated[i] = "rejected" \/ Rejected(i))
            /\ outcome[i] = "thrown" => Rejected(i)

C15_Witness ==
    \E i \in Invocations :
        /\ variant = "current"
        /\ snapshot.userBirthday = Text("garbage")
        /\ userAge[i] = NaN
        /\ chunks[i] = <<"ismim Ayse", "medeni durumum evli", "is durumum calisiyor">>
        /\ writer = i
        /\ record.status = "completed"

SuccessUpdateRejected(i) ==
    \E k \in DOMAIN updates[i] :
        updates[i][k].fields.status = "completed" /\ updates[i][k].fate = "rejected"

\* C16: when the success update of an invocation is rejected, the invocation
\* ends as a thrown error, that update is the last datastore write it issued
\* and the sweep before it is the only cleanup sweep it ran.
C16_SuccessUpdateFailureThrown ==
    \A i \in Invocations :
        SuccessUpdateRejected(i) =>
            /\ outcome[i] = "thrown"
            /\ updates[i][Len(updates[i])].fields.status = "completed"
            /\ sweeps[i] <= 1

TerminalWritten(i) ==
    \E k \in DOMAIN updates[i] :
        /\ updates[i][k].fields.status \in TerminalStatuses
        /\ updates[i][k].fate # "pending"

\* C17: an invocation has attempted a file deletion only when a terminal
\* datastore write of it has completed, and it has called generateContent
\* only when every reference of photoPaths has been handled.
C17_PersistBeforeCleanup ==
    \A i \in Invocations :
        /\ unlinks[i] # <<>> => TerminalWritten(i)
        /\ generated[i] # "none" => Len(assets[i]) = Len(photoPaths)

\* C20: an invocation calls generateContent at most once, downloads each
\* reference at most once (one download per reference reached, none of a
\* reference again after a failure) and uploads at most once per downloaded
\* reference.
C20_NoRetry ==
    \A i \in Invocations :
        LET inLoop == pc[i] \in {"await_download", "await_upload"}
            handled == Len(assets[i])
            uploads == Cardinality({k \in DOMAIN assets[i] : assets[i][k] # "download_failed"})
        IN  /\ calls[i].generate <= 1
            /\ calls[i].generate = 1 <=> generated[i] # "none"
            /\ handled <= Len(photoPaths)
            /\ calls[i].download = handled + (IF inLoop THEN 1 ELSE 0)
            /\ calls[i].download = idx[i]
            /\ calls[i].upload = uploads + (IF pc[i] = "await_upload" THEN 1 ELSE 0)
            /\ calls[i].upload <= calls[i].download

C20_Witness ==
    \E i \in Invocations :
        /\ assets[i] = <<"download_failed", "upload_failed", "part">>
        /\ generated[i] = "rejected"
        /\ calls[i] = [download |-> 3, upload |-> 2, generate |-> 1]
        /\ pc[i] = "done"

\* The temp paths invocation i is using: the one it is downloading to or
\* uploading from, and those it keeps for its cleanup loop until it has run.
Live(i) ==
    (IF pc[i] \in {"await_download", "await_upload"} THEN {TempFilePath(i)} ELSE {})
    \cup (IF sweeps[i] = 0 THEN Range(tempFiles[i]) ELSE {})

\* C18: no temp path is in use by two invocations at once, and within one
\* invocation the paths of different references differ.
C18_TempPathsDistinct ==
    /\ \A i, j \in Invocations : i # j => Live(i) \cap Live(j) = {}
    /\ \A i \in Invocations :
          /\ \A k, l \in DOMAIN tempFiles[i] : k # l => tempFiles[i][k] # tempFiles[i][l]
          /\ pc[i] \in {"await_download", "await_upload"} =>
                TempFilePath(i) \notin Range(tempFiles[i])

\* C19: when the handler of an invocation has returned, the AI service holds
\* no file uploaded by that invocation and no temp file it registered for
\* cleanup is left in the temporary directory.
C19_AssetsReleased ==
    \A i \in Invocations :
        Done(i) =>
            /\ \A f \in remoteFiles : f[1] # i
            /\ Range(tempFiles[i]) \cap disk = {}

\* C21: every cleanup loop of an invocation calls unlinkSync on every file of
\* tempFiles, in order, whichever of the calls throw; and whichever throw, a
\* resolved generation is followed by the completed update carrying the
\* generated text, a rejected one by the error update carrying its message
\* and by no completed update.
C21_DeletionFailureIgnored ==
    \A i \in Invocations :
        LET n == Len(tempFiles[i]) IN
        /\ Len(unlinks[i]) = sweeps[i] * n
        /\ \A k \in DOMAIN unlinks[i] : unlinks[i][k] = tempFiles[i][((k - 1) % n) + 1]
        /\ generated[i] = "text" =>
              /\ updates[i] # <<>>
              /\ \E k \in DOMAIN updates[i] :
                    /\ updates[i][k].fields.status = "completed"
                    /\ \A l \in 1..(k - 1) : updates[i][l].fields.status = "processing"
                    /\ IF variant = "current"
                       THEN updates[i][k].fields.result = Text(GeneratedText)
                       ELSE updates[i][k].fields.result.analysis = GeneratedText
        /\ generated[i] = "rejected" =>
              /\ LastUpdate(i).fields.status = "error"
              /\ LastUpdate(i).fields.result.errorDetails = GenerationMessage
              /\ \A u \in Issued(i) : u.status # "completed"

C21_Witness ==
    \E i \in Invocations :
        /\ Len(tempFiles[i]) = 2
        /\ threw[i] = <<tempFiles[i][1]>>
        /\ unlinks[i] = tempFiles[i]
        /\ generated[i] = "text"
        /\ Done(i)
        /\ writer = i
        /\ record.status = "completed"

Applied(i, status) ==
    {k \in DOMAIN updates[i] :
        updates[i][k].fields.status = status /\ updates[i][k].fate = "applied"}

C23_UploadWithoutUri ==
    \A i \in Invocations :
        \A k \in DOMAIN assets[i] :
            assets[i][k] = "nouri" =>
                LET pos == Cardinality({j \in 1..k : assets[i][j] \in {"part", "nouri"}})
                IN  /\ \A j \in DOMAIN contentParts[i] :
                          contentParts[i][j].kind = "file" => contentParts[i][j].ref # k
                    /\ pos <= Len(tempFiles[i])
                    /\ tempFiles[i][pos] \in created[i]
                    /\ sweeps[i] >= 1 => tempFiles[i][pos] \in Range(unlinks[i])
                    /\ IF k < Len(photoPaths) THEN idx[i] > k ELSE generated[i] # "none"
                    /\ (\E u \in Issued(i) : u.status = "error") =>
                          (generated[i] = "rejected" \/ Rejected(i))
                    /\ outcome[i] = "thrown" => Rejected(i)

C23_Witness ==
    \E i \in Invocations :
        /\ assets[i] = <<"nouri", "part">>
        /\ contentParts[i] = <<FilePart(2), TextPart(promptText[i])>>
        /\ Len(unlinks[i]) = 2
        /\ Done(i)
        /\ writer = i
        /\ record.status = "completed"

====
